---- MODULE Spec2Model ----
(***************************************************************************)
(* Model of the carpet design generator API (main.py): the prompt compiler *)
(* create_detailed_prompt, the POST /generate handler with its outbound    *)
(* GET to the image provider, GET /health, GET /options, and the single    *)
(* asyncio event loop that uvicorn.run gives the process.                  *)
(*                                                                         *)
(* Python strings are TLA+ strings (sequences of characters); the string   *)
(* functions the code calls (str.lower, "in", ", ".join, urllib.parse.     *)
(* quote, integer formatting) are computed character by character.         *)
(***************************************************************************)
EXTENDS Integers, Sequences, FiniteSets, TLC

\* Number of HTTP requests clients send to the process in one run.
NumReqs == 2

Reqs == 1..NumReqs

-----------------------------------------------------------------------------
(* Strings *)

\* The printable ASCII characters by code point: 32 to 95, and 97 to 126
\* (code 96, the backquote, cannot be written in a TLA+ string and is
\* outside the modelled inputs).
AsciiLow == " !\"#$%&'()*+,-./0123456789:;<=>?@ABCDEFGHIJKLMNOPQRSTUVWXYZ[\\]^_"

AsciiHigh == "abcdefghijklmnopqrstuvwxyz{|}~"

Char(s, i) == SubSeq(s, i, i)

\* the code point of every character of the tables
CodePoint ==
    [c \in {Char(AsciiLow, i) : i \in 1..Len(AsciiLow)}
           \cup {Char(AsciiHigh, i) : i \in 1..Len(AsciiHigh)} |->
        IF \E i \in 1..Len(AsciiLow) : Char(AsciiLow, i) = c
        THEN 31 + (CHOOSE i \in 1..Len(AsciiLow) : Char(AsciiLow, i) = c)
        ELSE 96 + (CHOOSE i \in 1..Len(AsciiHigh) : Char(AsciiHigh, i) = c)]

\* ord(c)
Ord(c) == CodePoint[c]

\* chr(n)
Chr(n) == IF n <= 95 THEN Char(AsciiLow, n - 31) ELSE Char(AsciiHigh, n - 96)

\* c.lower() for one ASCII character
LowerChar(c) == IF Ord(c) >= 65 /\ Ord(c) <= 90 THEN Chr(Ord(c) + 32) ELSE c

\* str.lower() on ASCII text: every character mapped in place (the string is
\* split in halves to keep the recursion shallow)
LowerOf[s \in STRING] ==
    IF s = "" THEN ""
    ELSE IF Len(s) = 1 THEN LowerChar(s)
    ELSE LowerOf[SubSeq(s, 1, Len(s) \div 2)] \o LowerOf[SubSeq(s, (Len(s) \div 2) + 1, Len(s))]

Lower(s) == LowerOf[s]

\* the Python operator  needle in s  on strings
Contains(needle, s) ==
    \E i \in 0..(Len(s) - Len(needle)) : SubSeq(s, i + 1, i + Len(needle)) = needle

\* sep.join(items)
RECURSIVE Join(_, _)
Join(items, sep) ==
    IF Len(items) = 0 THEN ""
    ELSE IF Len(items) = 1 THEN items[1]
    ELSE items[1] \o sep \o Join(Tail(items), sep)

\* f"{n}" for an int n >= 0
RECURSIVE Decimal(_)
Decimal(n) ==
    IF n < 10 THEN Chr(48 + n) ELSE Decimal(n \div 10) \o Chr(48 + (n % 10))

HexDigits == "0123456789ABCDEF"

\* '%{:02X}'.format(byte)
PercentByte(n) == "%" \o Char(HexDigits, (n \div 16) + 1) \o Char(HexDigits, (n % 16) + 1)

\* the characters urllib.parse.quote never escapes (letters, digits and
\* "_.-~"), plus its default safe='/'
QuoteSafeChars ==
    {c \in DOMAIN CodePoint :
        \/ CodePoint[c] >= 65 /\ CodePoint[c] <= 90
        \/ CodePoint[c] >= 97 /\ CodePoint[c] <= 122
        \/ CodePoint[c] >= 48 /\ CodePoint[c] <= 57}
    \cup {"_", ".", "-", "~", "/"}

QuoteSafe(c) == c \in QuoteSafeChars

\* what quote puts for one ASCII character
QuoteChar(c) == IF QuoteSafe(c) THEN c ELSE PercentByte(Ord(c))

\* urllib.parse.quote(s) for ASCII s: every character mapped in place (the
\* string is split in halves to keep the recursion shallow)
QuoteOf[s \in STRING] ==
    IF s = "" THEN ""
    ELSE IF Len(s) = 1 THEN QuoteChar(s)
    ELSE QuoteOf[SubSeq(s, 1, Len(s) \div 2)] \o QuoteOf[SubSeq(s, (Len(s) \div 2) + 1, Len(s))]

quote(s) == QuoteOf[s]

-----------------------------------------------------------------------------
(* Optional[str] *)

None == <<>>
Some(s) == <<s>>

-----------------------------------------------------------------------------
(* create_detailed_prompt *)

\* color_palettes with a color of "Azure Sky" written differently from the
\* /options copy
color_palettesDrifted ==
    ("Mystical Journey" :> <<"Deep Purple", "Royal Blue", "Violet", "Light Gray">>) @@
    ("Mugham Harmony" :> <<"Sky Blue", "Cyan", "Purple", "Amber">>) @@
    ("Royal Purple" :> <<"Dark Purple", "Medium Purple", "Light Purple", "Pale Purple">>) @@
    ("Azure Sky" :> <<"Sky Blue", "Cyan", "Royal Blue", "Indigo">>) @@
    ("Earth Tones" :> <<"Saddle Brown", "Chocolate", "Sandy Brown", "Sienna">>) @@
    ("Sunset Fire" :> <<"Orange Red", "Dark Orange", "Gold", "Fire Brick">>) @@
    ("Forest Harmony" :> <<"Forest Green", "Lime Green", "Olive Drab", "Yellow Green">>) @@
    ("Modern Monochrome" :> <<"Dark Gray", "Gray", "Light Gray", "Very Light Gray">>)

color_palettes ==
    ("Mystical Journey" :> <<"Deep Purple", "Royal Blue", "Violet", "Light Gray">>) @@
    ("Mugham Harmony" :> <<"Sky Blue", "Cyan", "Purple", "Amber">>) @@
    ("Royal Purple" :> <<"Dark Purple", "Medium Purple", "Light Purple", "Pale Purple">>) @@
    ("Azure Sky" :> <<"Sky Blue", "Cyan Blue", "Royal Blue", "Indigo">>) @@
    ("Earth Tones" :> <<"Saddle Brown", "Chocolate", "Sandy Brown", "Sienna">>) @@
    ("Sunset Fire" :> <<"Orange Red", "Dark Orange", "Gold", "Fire Brick">>) @@
    ("Forest Harmony" :> <<"Forest Green", "Lime Green", "Olive Drab", "Yellow Green">>) @@
    ("Modern Monochrome" :> <<"Dark Gray", "Gray", "Light Gray", "Very Light Gray">>)

\* PaletteColors with the name matched whatever its case
PaletteColorsAnyCase(name) ==
    IF \E k \in DOMAIN color_palettes : Lower(k) = Lower(name)
    THEN color_palettes[CHOOSE k \in DOMAIN color_palettes : Lower(k) = Lower(name)]
    ELSE <<"Deep Red", "Navy Blue", "Golden Yellow", "Dark Gray">>

\* color_palettes.get(request.color_palette, [...])
PaletteColors(name) ==
    IF name \in DOMAIN color_palettes
    THEN color_palettes[name]
    ELSE <<"Deep Red", "Navy Blue", "Golden Yellow", "Dark Gray">>

\* MotifDescription with the "floral" test put before the "geometric" test
MotifDescriptionFloralFirst(original) ==
    LET motif == Lower(original)
    IN  IF motif = "buta"
        THEN "Buta (traditional paisley motif, iconic Azerbaijan symbol representing life and eternity)"
        ELSE IF motif = "rosekhatte"
        THEN "RoseKhatte (rose and line motif, symbol of beauty and elegance in Azerbaijan carpets)"
        ELSE IF motif = "bird"
        THEN "Bird (freedom and nature symbol, representing the soul's journey to heaven)"
        ELSE IF Contains("floral", motif)
        THEN "traditional floral designs (garden of paradise motifs with roses, tulips, and vines)"
        ELSE IF Contains("geometric", motif)
        THEN "intricate geometric patterns (mathematical precision representing divine order and infinity)"
        ELSE original \o " motif"

\* the if/elif chain that sets motif_description
MotifDescription(original) ==
    LET motif == Lower(original)
    IN  IF motif = "buta"
        THEN "Buta (traditional paisley motif, iconic Azerbaijan symbol representing life and eternity)"
        ELSE IF motif = "rosekhatte"
        THEN "RoseKhatte (rose and line motif, symbol of beauty and elegance in Azerbaijan carpets)"
        ELSE IF motif = "bird"
        THEN "Bird (freedom and nature symbol, representing the soul's journey to heaven)"
        ELSE IF Contains("geometric", motif)
        THEN "intricate geometric patterns (mathematical precision representing divine order and infinity)"
        ELSE IF Contains("floral", motif)
        THEN "traditional floral designs (garden of paradise motifs with roses, tulips, and vines)"
        ELSE original \o " motif"

create_detailed_prompt(request) ==
    LET colors_text == Join(PaletteColors(request.color_palette), ", ")
        motif_description == MotifDescription(request.motif)
        prompt ==
            "A highly detailed, traditional Persian and Azerbaijan carpet design in the style of "
            \o request.design_style \o ", "
            \o "featuring " \o motif_description \o ", clearly visible in the carpet design. "
            \o "Intricate floral and geometric patterns, rich textures, and authentic weaving. "
            \o "Color palette: " \o colors_text \o ". "
            \o "Ornate, symmetrical, museum-quality, high-resolution, vibrant, "
            \o "inspired by historical carpets from Shirvan, Karabagh, and the Caucasus region."
    IN  IF request.additional_details # ""
        THEN prompt \o " " \o request.additional_details \o "."
        ELSE prompt

-----------------------------------------------------------------------------
(* Requests *)

\* class CarpetDesignRequest
CarpetDesignRequest(design_style, color_palette, motif, additional_details) ==
    [design_style |-> design_style, color_palette |-> color_palette,
     motif |-> motif, additional_details |-> additional_details]

Generate(body) == [endpoint |-> "/generate", body |-> body]
Health == [endpoint |-> "/health"]
Options == [endpoint |-> "/options"]

\* Request bodies of the concurrent workload: one complete, one with an
\* empty required field.
TabrizBody == CarpetDesignRequest("Tabriz", "Mystical Journey", "Buta", "silk, 2 borders")
NoPaletteBody == CarpetDesignRequest("Ganja", "", "Bird", "")

ConcRequests == {Generate(TabrizBody), Generate(NoPaletteBody), Health, Options}

\* Request bodies of the prompt compiler workload.
Styles == {"", "Tabriz"}
Palettes == {"", "Azure Sky", "azure sky", "Mugham Harmony", "Crimson Dusk"}
Motifs == {"", "Buta", "RoseKhatte", "BIRD", "Birds", "Geometric patterns",
           "Floral designs", "Floral Geometric", "Unicorn", "Khari Bul-Bul"}
Details == {"", "wool & silk"}

CompileBodies ==
    {CarpetDesignRequest(s, p, m, d) : s \in Styles, p \in Palettes, m \in Motifs, d \in Details}

-----------------------------------------------------------------------------
(* Responses *)

\* class GenerationResponse, returned by the handler: FastAPI sends it as
\* the JSON body of an HTTP 200 response.
GenerationResponse(success, message, image_url, error) ==
    [http |-> 200, type |-> "GenerationResponse", success |-> success,
     message |-> message, image_url |-> image_url, error |-> error]

\* return {"status": "healthy", "service": "carpet-design-generator"}
HealthBody ==
    [http |-> 200, type |-> "health", status |-> "healthy",
     service |-> "carpet-design-generator"]

Color(name, hex) == [name |-> name, hex |-> hex]

\* the dict get_options returns
OptionsBody ==
    [http |-> 200, type |-> "options",
     design_patterns |->
        <<"Tabriz", "Ganja", "Shirvan", "Baku", "Karabagh", "Gazakh", "Kubba">>,
     color_palettes |-> <<
        [name |-> "Mystical Journey", colors |-> <<
            Color("Deep Purple", "#4c1d95"), Color("Royal Blue", "#6366f1"),
            Color("Violet", "#a855f7"), Color("Light Gray", "#f3f4f6")>>],
        [name |-> "Mugham Harmony", colors |-> <<
            Color("Sky Blue", "#0ea5e9"), Color("Cyan", "#06b6d4"),
            Color("Purple", "#8b5cf6"), Color("Amber", "#f59e0b")>>],
        [name |-> "Royal Purple", colors |-> <<
            Color("Dark Purple", "#4c1d95"), Color("Medium Purple", "#7c3aed"),
            Color("Light Purple", "#a855f7"), Color("Pale Purple", "#c084fc")>>],
        [name |-> "Azure Sky", colors |-> <<
            Color("Sky Blue", "#0ea5e9"), Color("Cyan Blue", "#06b6d4"),
            Color("Royal Blue", "#3b82f6"), Color("Indigo", "#6366f1")>>],
        [name |-> "Earth Tones", colors |-> <<
            Color("Saddle Brown", "#8B4513"), Color("Chocolate", "#D2691E"),
            Color("Sandy Brown", "#CD853F"), Color("Sienna", "#A0522D")>>],
        [name |-> "Sunset Fire", colors |-> <<
            Color("Orange Red", "#FF4500"), Color("Dark Orange", "#FF8C00"),
            Color("Gold", "#FFD700"), Color("Fire Brick", "#B22222")>>],
        [name |-> "Forest Harmony", colors |-> <<
            Color("Forest Green", "#228B22"), Color("Lime Green", "#32CD32"),
            Color("Olive Drab", "#6B8E23"), Color("Yellow Green", "#9ACD32")>>],
        [name |-> "Modern Monochrome", colors |-> <<
            Color("Dark Gray", "#2D3748"), Color("Gray", "#4A5568"),
            Color("Light Gray", "#718096"), Color("Very Light Gray", "#E2E8F0")>>]
        >>,
     motifs |->
        <<"Buta", "Khari Bul-Bul", "Bird", "Geometric patterns", "Floral designs">>]

-----------------------------------------------------------------------------
(* Exceptions and the outbound call *)

\* raise HTTPException(status_code=400, detail=detail); str() of it is
\* "{status_code}: {detail}"
HTTPException(status_code, detail) ==
    [class |-> "HTTPException", status_code |-> status_code, detail |-> detail,
     str |-> Decimal(status_code) \o ": " \o detail]

NoException == [class |-> "none"]

\* the exceptions of requests that derive from requests.RequestException
RequestExceptions == {"Timeout", "ConnectionError"}

\* HTTP statuses the provider answers with
Statuses == {200, 204, 503}

\* What requests.get(api_url, timeout=30) does: it returns a response with a
\* status code, raises a RequestException (the 30 s timeout expired, the
\* connection failed), or raises some other exception.
GetOutcomes ==
    {[kind |-> "response", status_code |-> sc] : sc \in Statuses}
    \cup {[kind |-> "raise", class |-> "Timeout", str |-> "Read timed out. (read timeout=30)"],
          [kind |-> "raise", class |-> "ConnectionError", str |-> "Connection refused"],
          [kind |-> "raise", class |-> "RuntimeError", str |-> "unexpected"]}

NoOutcome == [kind |-> "none"]

-----------------------------------------------------------------------------
(* generate_carpet_design *)

\* ValidateInput without the motif check
ValidateInputNoMotif(request) ==
    IF request.design_style = ""
    THEN HTTPException(400, "Design style is required")
    ELSE IF request.color_palette = ""
    THEN HTTPException(400, "Color palette is required")
    ELSE NoException

\* # Validate input: the exception the three checks raise, if any
ValidateInput(request) ==
    IF request.design_style = ""
    THEN HTTPException(400, "Design style is required")
    ELSE IF request.color_palette = ""
    THEN HTTPException(400, "Color palette is required")
    ELSE IF request.motif = ""
    THEN HTTPException(400, "Motif is required")
    ELSE NoException

\* api_url = f"https://image.pollinations.ai/prompt/{encoded_prompt}"
ApiUrl(prompt) == "https://image.pollinations.ai/prompt/" \o quote(prompt)

\* ClassifyStatus with every 2xx status taken as success
ClassifyStatusAny2xx(status_code, url) ==
    IF status_code >= 200 /\ status_code < 300
    THEN GenerationResponse(TRUE, "Carpet design generated successfully", Some(url), None)
    ELSE GenerationResponse(FALSE, "Failed to generate carpet design", None,
                            Some("API returned status code " \o Decimal(status_code)))

\* if response.status_code == 200: ... else: ...
ClassifyStatus(status_code, url) ==
    IF status_code = 200
    THEN GenerationResponse(TRUE, "Carpet design generated successfully", Some(url), None)
    ELSE GenerationResponse(FALSE, "Failed to generate carpet design", None,
                            Some("API returned status code " \o Decimal(status_code)))

\* ExceptClauses with the error left out of the network failure result
ExceptClausesNoError(e) ==
    IF e.class \in RequestExceptions
    THEN GenerationResponse(FALSE, "Failed to generate carpet design", None, None)
    ELSE GenerationResponse(FALSE, "Failed to generate carpet design", None,
                            Some("Internal error: " \o e.str))

\* ExceptClauses without the clause for requests.RequestException and with
\* the last clause narrowed to HTTPException: a network failure leaves the
\* handler as an unhandled exception, which the server answers with a bare
\* HTTP 500
ExceptClausesNarrow(e) ==
    IF e.class = "HTTPException"
    THEN GenerationResponse(FALSE, "Failed to generate carpet design", None,
                            Some("Internal error: " \o e.str))
    ELSE [http |-> 500, type |-> "fault"]

\* the two except clauses of the handler's try statement; every exception
\* raised inside the try, HTTPException included, derives from Exception
ExceptClauses(e) ==
    IF e.class \in RequestExceptions
    THEN GenerationResponse(FALSE, "Failed to generate carpet design", None,
                            Some("Network error: " \o e.str))
    ELSE GenerationResponse(FALSE, "Failed to generate carpet design", None,
                            Some("Internal error: " \o e.str))

\* the handler's result once requests.get has returned or raised
AfterGet(o, url) ==
    IF o.kind = "response" THEN ClassifyStatus(o.status_code, url) ELSE ExceptClauses(o)

\* IssueGet with the call made a second time
IssueGetTwice(log, url) == Append(Append(log, url), url)

\* the outbound calls after response = requests.get(api_url, timeout=30)
IssueGet(log, url) == Append(log, url)

-----------------------------------------------------------------------------
(* State *)

VARIABLES
    req,        \* req[r]: the request client r sends
    pc,         \* pc[r]: where request r is
    loop,       \* the request whose coroutine runs on the event loop thread, 0 if none
    prompt,     \* prompt[r]: the handler's local prompt, None before it is assigned
    api_url,    \* api_url[r]: the handler's local api_url, None before it is assigned
    outbound,   \* outbound[r]: the URLs of the GETs issued to the provider for r
    outcome,    \* outcome[r]: what the outbound GET of r did
    responses   \* responses[r]: the HTTP responses sent to client r

vars == <<req, pc, loop, prompt, api_url, outbound, outcome, responses>>

InitServer ==
    /\ pc = [r \in Reqs |-> "idle"]
    /\ loop = 0
    /\ prompt = [r \in Reqs |-> None]
    /\ api_url = [r \in Reqs |-> None]
    /\ outbound = [r \in Reqs |-> <<>>]
    /\ outcome = [r \in Reqs |-> NoOutcome]
    /\ responses = [r \in Reqs |-> <<>>]

\* the concurrent workload: any mix of requests
Init ==
    /\ req \in [Reqs -> ConcRequests]
    /\ InitServer

\* the prompt compiler workload: one POST /generate with any body, next to
\* GET /health and GET /options
InitCompile ==
    /\ req \in {[r \in Reqs |-> IF r = 1 THEN Generate(b) ELSE o] :
                    b \in CompileBodies, o \in {Health, Options}}
    /\ InitServer

-----------------------------------------------------------------------------
(* Actions *)

\* The event loop thread is free to run a handler: uvicorn.run(app) serves
\* every request of the process on one event loop, and a coroutine keeps the
\* thread until it awaits or returns.
LoopFree == loop = 0

\* client r sends its request
Arrive(r) ==
    /\ pc[r] = "idle"
    /\ pc' = [pc EXCEPT ![r] = "sent"]
    /\ UNCHANGED <<req, loop, prompt, api_url, outbound, outcome, responses>>

\* async def generate_carpet_design, from its start to the call of
\* requests.get: validation, prompt, URL.  requests.get is a blocking call
\* made inside the coroutine, so the event loop thread stays with r.
GenerateStart(r) ==
    /\ pc[r] = "sent"
    /\ req[r].endpoint = "/generate"
    /\ LoopFree
    /\ LET request == req[r].body
           e == ValidateInput(request)
           p == create_detailed_prompt(request)
           url == ApiUrl(p)
       IN  IF e.class # "none"
           THEN /\ responses' = [responses EXCEPT ![r] = Append(@, ExceptClauses(e))]
                /\ pc' = [pc EXCEPT ![r] = "done"]
                /\ UNCHANGED <<loop, prompt, api_url, outbound>>
           ELSE /\ prompt' = [prompt EXCEPT ![r] = Some(p)]
                /\ api_url' = [api_url EXCEPT ![r] = Some(url)]
                /\ outbound' = [outbound EXCEPT ![r] = IssueGet(@, url)]
                /\ loop' = r
                /\ pc' = [pc EXCEPT ![r] = "in_get"]
                /\ UNCHANGED responses
    /\ UNCHANGED <<req, outcome>>

\* requests.get returns or raises, and the handler runs to its return
GenerateFinish(r) ==
    /\ pc[r] = "in_get"
    /\ \E o \in GetOutcomes :
        /\ outcome' = [outcome EXCEPT ![r] = o]
        /\ responses' = [responses EXCEPT ![r] = Append(@, AfterGet(o, api_url[r][1]))]
    /\ loop' = 0
    /\ pc' = [pc EXCEPT ![r] = "done"]
    /\ UNCHANGED <<req, prompt, api_url, outbound>>

\* async def health_check: runs on the event loop thread
health_check(r) ==
    /\ pc[r] = "sent"
    /\ req[r].endpoint = "/health"
    /\ LoopFree
    /\ responses' = [responses EXCEPT ![r] = Append(@, HealthBody)]
    /\ pc' = [pc EXCEPT ![r] = "done"]
    /\ UNCHANGED <<req, loop, prompt, api_url, outbound, outcome>>

\* def get_options is not a coroutine: the event loop reads the request and
\* hands the call to a worker thread
OptionsDispatch(r) ==
    /\ pc[r] = "sent"
    /\ req[r].endpoint = "/options"
    /\ LoopFree
    /\ pc' = [pc EXCEPT ![r] = "in_pool"]
    /\ UNCHANGED <<req, loop, prompt, api_url, outbound, outcome, responses>>

\* get_options has run in its worker thread; the event loop sends the result
get_options(r) ==
    /\ pc[r] = "in_pool"
    /\ LoopFree
    /\ responses' = [responses EXCEPT ![r] = Append(@, OptionsBody)]
    /\ pc' = [pc EXCEPT ![r] = "done"]
    /\ UNCHANGED <<req, loop, prompt, api_url, outbound, outcome>>

Serve(r) ==
    \/ GenerateStart(r)
    \/ GenerateFinish(r)
    \/ health_check(r)
    \/ OptionsDispatch(r)
    \/ get_options(r)

Next ==
    \/ \E r \in Reqs : Arrive(r)
    \/ \E r \in Reqs : GenerateStart(r)
    \/ \E r \in Reqs : GenerateFinish(r)
    \/ \E r \in Reqs : health_check(r)
    \/ \E r \in Reqs : OptionsDispatch(r)
    \/ \E r \in Reqs : get_options(r)

Spec == Init /\ [][Next]_vars

SpecCompile == InitCompile /\ [][Next]_vars

\* The event loop runs every ready handler, and requests.get returns or
\* raises within its timeout.
FairSpec == Init /\ [][Next]_vars /\ \A r \in Reqs : WF_vars(Serve(r))

-----------------------------------------------------------------------------
(* Vocabulary of the properties *)

IsGenerate(r) == req[r].endpoint = "/generate"

\* a required field of the body is empty
EmptyField(b) == b.design_style = "" \/ b.color_palette = "" \/ b.motif = ""

ValidGenerate(r) == IsGenerate(r) /\ ~EmptyField(req[r].body)

InvalidGenerate(r) == IsGenerate(r) /\ EmptyField(req[r].body)

Answered(r) == pc[r] = "done" /\ Len(responses[r]) >= 1

\* the response client r got
Resp(r) == responses[r][1]

StartsWith(s, prefix) == Len(s) >= Len(prefix) /\ SubSeq(s, 1, Len(prefix)) = prefix

ProviderPrefix == "https://image.pollinations.ai/prompt/"

HexValue(c) == (CHOOSE i \in 1..Len(HexDigits) : Char(HexDigits, i) = c) - 1

\* the text a percent-encoded string stands for at position i: an escape
\* %XY stands for the character with code 16 X + Y, the two digits after a
\* "%" stand for nothing, any other character stands for itself
DecodedAt(s, i) ==
    IF Char(s, i) = "%"
    THEN Chr(16 * HexValue(Char(s, i + 1)) + HexValue(Char(s, i + 2)))
    ELSE IF (i > 1 /\ Char(s, i - 1) = "%") \/ (i > 2 /\ Char(s, i - 2) = "%")
    THEN ""
    ELSE Char(s, i)

RECURSIVE DecodedRange(_, _, _)
DecodedRange(s, lo, hi) ==
    IF lo > hi THEN ""
    ELSE IF lo = hi THEN DecodedAt(s, lo)
    ELSE DecodedRange(s, lo, (lo + hi) \div 2) \o DecodedRange(s, ((lo + hi) \div 2) + 1, hi)

\* percent-decoding
Unquote(s) == DecodedRange(s, 1, Len(s))

\* url is the provider prefix followed by the percent-encoding of text:
\* only unreserved characters, "/" and escapes after the prefix, and
\* decoding gives text back
IsProviderUrlOf(url, text) ==
    /\ StartsWith(url, ProviderPrefix)
    /\ LET path == SubSeq(url, Len(ProviderPrefix) + 1, Len(url))
       IN  /\ \A i \in 1..Len(path) : Char(path, i) = "%" \/ QuoteSafe(Char(path, i))
           /\ Unquote(path) = text

IsNetworkFailure(o) == o.kind = "raise" /\ o.class \in {"Timeout", "ConnectionError"}

-----------------------------------------------------------------------------
(* C1: a POST /generate with an empty design_style, color_palette or motif *)
(* is answered with HTTP 400 and a {detail} body, never with an HTTP 200   *)
(* GenerationResponse.                                                     *)
C1_EmptyFieldAnswered400 ==
    \A r \in Reqs :
        InvalidGenerate(r) /\ Answered(r) =>
            /\ Resp(r).http = 400
            /\ Resp(r).type = "detail"

(* C2: for a POST /generate that passes validation the result follows the  *)
(* outcome of the outbound GET: status 200 gives success with the fixed    *)
(* message and image_url equal to the requested URL, which is the provider *)
(* prefix followed by the percent-encoded prompt; another status s gives a *)
(* failure with error "API returned status code s"; a network failure      *)
(* gives a failure whose error begins "Network error: ".                   *)
C2_ResultFollowsOutcome ==
    \A r \in Reqs :
        ValidGenerate(r) /\ Answered(r) =>
            LET o == outcome[r]
                res == Resp(r)
            IN  /\ res.type = "GenerationResponse"
                /\ (o.kind = "response" /\ o.status_code = 200) =>
                        /\ res.success = TRUE
                        /\ res.message = "Carpet design generated successfully"
                        /\ res.image_url = <<outbound[r][1]>>
                        /\ IsProviderUrlOf(outbound[r][1], prompt[r][1])
                /\ (o.kind = "response" /\ o.status_code # 200) =>
                        /\ res.success = FALSE
                        /\ res.message = "Failed to generate carpet design"
                        /\ res.error = <<"API returned status code " \o ToString(o.status_code)>>
                /\ IsNetworkFailure(o) =>
                        /\ res.success = FALSE
                        /\ res.error # <<>>
                        /\ StartsWith(res.error[1], "Network error: ")

C2_Witness ==
    \E r, q \in Reqs :
        /\ ValidGenerate(r) /\ Answered(r)
        /\ outcome[r].kind = "response" /\ outcome[r].status_code = 200
        /\ Resp(r).success = TRUE
        /\ ValidGenerate(q) /\ Answered(q)
        /\ IsNetworkFailure(outcome[q])

(* C3: in every GenerationResponse sent for POST /generate, on every path, *)
(* image_url is present iff success is true and error is present iff       *)
(* success is false.                                                       *)
C3_UrlXorError ==
    \A r \in Reqs : \A i \in 1..Len(responses[r]) :
        responses[r][i].type = "GenerationResponse" =>
            /\ (responses[r][i].image_url # <<>>) <=> (responses[r][i].success = TRUE)
            /\ (responses[r][i].error # <<>>) <=> (responses[r][i].success = FALSE)

C3_Witness ==
    \E r, q \in Reqs :
        /\ ValidGenerate(r) /\ Answered(r) /\ Resp(r).success = TRUE
        /\ IsGenerate(q) /\ Answered(q) /\ Resp(q).success = FALSE

(* C4: while one POST /generate waits on its outbound GET, any other       *)
(* request that has arrived can still be served: its next step is enabled. *)
C4_NoStall ==
    \A r, q \in Reqs :
        (r # q /\ pc[q] = "in_get" /\ pc[r] \in {"sent", "in_pool"}) => ENABLED Serve(r)

(* C5: a POST /generate with an empty required field never has a prompt    *)
(* compiled and never has an outbound GET issued for it.                   *)
C5_NoGetForInvalid ==
    \A r \in Reqs :
        InvalidGenerate(r) => outbound[r] = <<>> /\ prompt[r] = <<>>

C5_Witness ==
    \E r \in Reqs : InvalidGenerate(r) /\ Answered(r) /\ req[r].body.motif = ""

\* a well-formed GenerationResult: an HTTP 200 GenerationResponse with a
\* message and exactly one of image_url and error
WellFormedResult(res) ==
    /\ res.http = 200
    /\ res.type = "GenerationResponse"
    /\ res.success \in BOOLEAN
    /\ res.message # ""
    /\ (res.image_url = <<>>) # (res.error = <<>>)

(* C6: every POST /generate that passes validation and has arrived is      *)
(* eventually answered, by exactly one response, a well-formed             *)
(* GenerationResult, whatever the outbound call does.                      *)
C6_ValidEventuallyAnswered ==
    \A r \in Reqs :
        /\ [](Len(responses[r]) <= 1)
        /\ (ValidGenerate(r) /\ pc[r] = "sent") ~>
                (pc[r] = "done" /\ Len(responses[r]) = 1 /\ WellFormedResult(responses[r][1]))

C6_Witness ==
    \E r \in Reqs :
        /\ ValidGenerate(r) /\ Answered(r)
        /\ outcome[r].kind = "raise"
        /\ WellFormedResult(Resp(r))

\* the "Color palette: " sentence of a prompt for the given color names
PaletteSentence(colors) == "Color palette: " \o Join(colors, ", ") \o ". "

(* C7: on POST /generate a color_palette that is not an exact key of the   *)
(* catalog puts the four default colors in the prompt, a key puts its own  *)
(* colors in catalog order, and in both cases the outbound GET is issued   *)
(* and a 200 from the provider gives success.                              *)
C7_LenientPalette ==
    \A r \in Reqs :
        (ValidGenerate(r) /\ pc[r] \in {"in_get", "done"}) =>
            LET name == req[r].body.color_palette
            IN  /\ prompt[r] # <<>>
                /\ name \notin DOMAIN color_palettes =>
                        Contains("Color palette: Deep Red, Navy Blue, Golden Yellow, Dark Gray. ",
                                 prompt[r][1])
                /\ name \in DOMAIN color_palettes =>
                        Contains(PaletteSentence(color_palettes[name]), prompt[r][1])
                /\ Len(outbound[r]) = 1
                /\ (outcome[r].kind = "response" /\ outcome[r].status_code = 200) =>
                        Resp(r).success = TRUE

C7_Witness ==
    \E r \in Reqs :
        /\ ValidGenerate(r) /\ Answered(r)
        /\ req[r].body.color_palette = "azure sky"
        /\ Resp(r).success = TRUE

(* C8: a POST /generate that passes validation issues exactly one outbound *)
(* GET, to the URL of its encoded prompt, and none before it is compiled;  *)
(* no outcome of the call adds a second one.                               *)
C8_ExactlyOneGet ==
    \A r \in Reqs :
        ValidGenerate(r) =>
            /\ pc[r] \in {"idle", "sent"} => outbound[r] = <<>>
            /\ pc[r] \in {"in_get", "done"} =>
                    /\ Len(outbound[r]) = 1
                    /\ prompt[r] # <<>>
                    /\ IsProviderUrlOf(outbound[r][1], prompt[r][1])

C8_Witness ==
    \E r \in Reqs :
        /\ ValidGenerate(r) /\ Answered(r)
        /\ outcome[r].kind = "response" /\ outcome[r].status_code = 503
        /\ Len(outbound[r]) = 1

\* the prompt says "featuring <description>, clearly visible"
Features(text, description) == Contains("featuring " \o description \o ", clearly visible", text)

(* C9: the lowercased motif is matched in priority order: the exact names  *)
(* buta, rosekhatte, bird; then containing "geometric"; then containing    *)
(* "floral" (geometric wins when both occur); a motif that matches nothing *)
(* is described as "<motif as given> motif".                               *)
C9_MotifPriority ==
    \A r \in Reqs :
        (ValidGenerate(r) /\ prompt[r] # <<>>) =>
            LET given == req[r].body.motif
                m == Lower(given)
                exact == m \in {"buta", "rosekhatte", "bird"}
                text == prompt[r][1]
            IN  /\ m = "buta" => Features(text, "Buta (traditional paisley motif, iconic Azerbaijan symbol representing life and eternity)")
                /\ m = "rosekhatte" => Features(text, "RoseKhatte (rose and line motif, symbol of beauty and elegance in Azerbaijan carpets)")
                /\ m = "bird" => Features(text, "Bird (freedom and nature symbol, representing the soul's journey to heaven)")
                /\ (~exact /\ Contains("geometric", m)) =>
                        Features(text, "intricate geometric patterns (mathematical precision representing divine order and infinity)")
                /\ (~exact /\ ~Contains("geometric", m) /\ Contains("floral", m)) =>
                        Features(text, "traditional floral designs (garden of paradise motifs with roses, tulips, and vines)")
                /\ (~exact /\ ~Contains("geometric", m) /\ ~Contains("floral", m)) =>
                        Features(text, given \o " motif")

C9_Witness ==
    \E r \in Reqs :
        /\ ValidGenerate(r) /\ prompt[r] # <<>>
        /\ req[r].body.motif = "Floral Geometric"

\* the color names of an /options palette entry, in order
ColorNames(entry) == [i \in 1..Len(entry.colors) |-> entry.colors[i].name]

(* C10: the palettes GET /options lists are exactly the keys of the table  *)
(* create_detailed_prompt uses, with the same color names in the same      *)
(* order, so a prompt for an offered palette carries the offered colors    *)
(* and never the default ones.                                             *)
C10_CatalogCopiesAgree ==
    \A o \in Reqs :
        (Answered(o) /\ Resp(o).type = "options") =>
            LET offered == Resp(o).color_palettes
            IN  /\ {offered[i].name : i \in 1..Len(offered)} = DOMAIN color_palettes
                /\ \A i \in 1..Len(offered) :
                        /\ PaletteColors(offered[i].name) = ColorNames(offered[i])
                        /\ \A r \in Reqs :
                            (ValidGenerate(r) /\ prompt[r] # <<>>
                                /\ req[r].body.color_palette = offered[i].name) =>
                                    /\ Contains(PaletteSentence(ColorNames(offered[i])), prompt[r][1])
                                    /\ ~Contains("Deep Red, Navy Blue, Golden Yellow, Dark Gray",
                                                 prompt[r][1])

C10_Witness ==
    \E o, r \in Reqs :
        /\ Answered(o) /\ Resp(o).type = "options"
        /\ ValidGenerate(r) /\ prompt[r] # <<>>
        /\ req[r].body.color_palette = "Azure Sky"

====
